---- MODULE Spec2Model ----
(***************************************************************************)
(* Model of the room server of modern-radio-party (src/unnamed/part_001,  *)
(* the socket.io server): the room registry, the per-room state, the      *)
(* per-connection event handlers and the messages each handler emits.     *)
(*                                                                         *)
(* A room object is identified by the connection that created it (each    *)
(* `rooms.set` of line 51 is run by exactly one connection), so the       *)
(* closure variable `room` of a connection is the id of that creator and  *)
(* a room object that was deleted from the registry stays reachable from  *)
(* the closures of the connections that joined it.                        *)
(*                                                                         *)
(* The message handlers of the Room component (src/src/pages/Room.tsx) are *)
(* modelled per connection: a client handles a message in the step that   *)
(* emits it, so every state is one with no message in flight.             *)
(*                                                                         *)
(* room.lastUpdateTime (wall clock, written, never read) is not modelled. *)
(* Socket ids and room ids are drawn from disjoint sets of integers.      *)
(***************************************************************************)
EXTENDS Integers, Sequences, FiniteSets, TLC

\* ------------------------------------------------------------ bounds
MaxConns == 3
NumRooms == 2
MaxQueue == 2
MaxPending == 2
MaxEvents == 2
MaxQueueEvents == 3
MaxSyncEvents == 3
MaxRoomEvents == 2
MaxRemoveEvents == 3
MaxUnanswered == 2

SetMax(S) == CHOOSE x \in S : \A y \in S : y <= x

\* The count of client events stops at the largest of the event bounds.
EventCap ==
    SetMax({MaxEvents, MaxQueueEvents, MaxSyncEvents, MaxRoomEvents, MaxRemoveEvents})

Conns == 1..MaxConns
RoomIds == 101..(100 + NumRooms)
Names == {"ann", "bob"}
TrackIds == {"v1", "v2"}
Times == {0, 5}
Texts == {"hi"}

\* JavaScript null (a track, a theme); a null socket id or room object.
Null == [null |-> TRUE]
NoId == 0

\* ------------------------------------------------------------ tracks
\* getVideoDetails: the resolved metadata, or the placeholder of the catch.
getVideoDetails(videoId, ok) ==
    IF ok THEN [id |-> videoId, title |-> "Title", duration |-> "PT3M"]
          ELSE [id |-> videoId, title |-> "Unknown Title", duration |-> "Unknown"]

\* songDetails.addedBy = name
WithAddedBy(details, name) ==
    [id |-> details.id, title |-> details.title,
     duration |-> details.duration, addedBy |-> name]

Tracks == { WithAddedBy(getVideoDetails(v, ok), n) :
              v \in TrackIds, ok \in BOOLEAN, n \in Names }

\* ------------------------------------------------------------ themes
\* The theme of a new room (lines 59-66).
DefaultTheme ==
    [id |-> "dark", name |-> "Dark Mode", bgColor |-> "from-gray-900 to-black",
     textColor |-> "text-white", accentColor |-> "blue", secondaryColor |-> "gray"]

\* A theme of the client's theme selector.
SynthwaveTheme ==
    [id |-> "synthwave", name |-> "Synthwave",
     bgColor |-> "from-purple-900 via-pink-800 to-indigo-900",
     textColor |-> "text-pink-100", accentColor |-> "pink", secondaryColor |-> "purple"]

\* createDynamicTheme of the client, on its fallback colours.
DynamicTheme ==
    [id |-> "dynamic", name |-> "Dynamic",
     bgColor |-> "from-[#6366f1] via-[#8b5cf6] to-black",
     textColor |-> "text-[#ffffff]", accentColor |-> "06b6d4", secondaryColor |-> "8b5cf6"]

\* A theme whose secondaryColor is missing (a falsy attribute).
PartialTheme == [DynamicTheme EXCEPT !.secondaryColor = ""]

\* The attributes line 133 asks for.
ThemeAttrs == {"id", "name", "bgColor", "textColor", "accentColor", "secondaryColor"}

\* The theme without its attribute a.
Without(theme, a) == [b \in DOMAIN theme \ {a} |-> theme[b]]

\* The updateTheme payloads: complete, with an empty attribute, lacking one
\* attribute, absent.
ThemeInputs ==
    {SynthwaveTheme, DynamicTheme, PartialTheme, Null}
    \cup { Without(SynthwaveTheme, a) : a \in ThemeAttrs }

\* theme.a is truthy: present and not the empty string.
Truthy(theme, a) == a \in DOMAIN theme /\ theme[a] # ""

\* The check of the theme's id alone.
ThemeCompleteIdOnly(theme) == theme # Null /\ Truthy(theme, "id")

\* theme && theme.id && theme.name && theme.bgColor && ... (line 133)
ThemeComplete(theme) ==
    /\ theme # Null
    /\ Truthy(theme, "id")
    /\ Truthy(theme, "name")
    /\ Truthy(theme, "bgColor")
    /\ Truthy(theme, "textColor")
    /\ Truthy(theme, "accentColor")
    /\ Truthy(theme, "secondaryColor")

\* ------------------------------------------------------------ state
VARIABLES
    nextId,     \* the socket id the next connection gets
    sockets,    \* per connection: its handshake query and closure variables
    rooms,      \* the registry: room id -> room object (NoId: no entry)
    heap,       \* the room objects, by the id of the creating connection
    lookups,    \* addSong handlers suspended at `await getVideoDetails`
    emitted,    \* the messages emitted by the last handler step, in order
    lastEv,     \* the event the last handler step handled
    nEvents,    \* number of client events handled so far, up to EventCap
    crashed,    \* an exception escaped a handler
    clients,    \* per connection: the React state of its Room component
                \* once it has handled every message emitted to it
    pages,      \* per connection: what its Room component has rendered
    unanswered  \* per connection: its requestSync events, up to
                \* MaxUnanswered, that no sync has followed yet

vars == <<nextId, sockets, rooms, heap, lookups, emitted, lastEv, nEvents, crashed,
          clients, pages, unanswered>>

NoSocket == [status |-> "none", roomId |-> NoId, name |-> "", isHost |-> FALSE, room |-> NoId]

NoRoom == [host |-> NoId, playlist |-> <<>>, currentSong |-> Null, isPlaying |-> FALSE,
           currentTime |-> 0, users |-> <<>>, theme |-> Null, isDynamicTheme |-> FALSE]

Connected(socks) == { c \in Conns : socks[c].status = "connected" }

\* The sockets in the socket.io room `x`: a connected socket is in the room
\* named by its roomId (socket.join, line 47) and in the room named by its
\* own id; any other name (null, a closed socket) is an empty room.
To(socks, x) ==
    IF x \in RoomIds THEN { c \in Connected(socks) : socks[c].roomId = x }
    ELSE IF x \in Connected(socks) THEN {x}
    ELSE {}

Msg(to, ev, data) == [to |-> to, ev |-> ev, data |-> data]

Ev(kind, sock) == [kind |-> kind, sock |-> sock]

\* ------------------------------------------------------------ client
\* The useState defaults of the Room component (Room.tsx, lines 133-139).
NoClient ==
    [currentSong |-> Null, playlist |-> <<>>, isPlaying |-> FALSE, users |-> <<>>,
     currentTime |-> 0, theme |-> DefaultTheme, isDynamicTheme |-> FALSE]

\* The list as received, nothing removed.
UniqueUsersAll(roomUsers) == roomUsers

\* roomUsers.reduce(...) of the userList handler: an entry is kept when no
\* earlier entry has its name.
RECURSIVE UniqueUsers(_)
UniqueUsers(roomUsers) ==
    IF roomUsers = <<>> THEN <<>>
    ELSE LET n == Len(roomUsers)
             acc == UniqueUsers(SubSeq(roomUsers, 1, n - 1))
         IN IF \E i \in 1..Len(acc) : acc[i].name = roomUsers[n].name
              THEN acc ELSE Append(acc, roomUsers[n])

\* The state of a client after its handler of message m has run; isHost is
\* the flag of location.state. The client has no handler for syncRequest
\* and sync; message and roomClosed change none of these fields.
ClientOn(cl, isHost, m) ==
    CASE m.ev = "songChange" -> [cl EXCEPT !.currentSong = m.data]
      [] m.ev = "playlistUpdate" -> [cl EXCEPT !.playlist = m.data]
      [] m.ev = "themeUpdate" ->
           [cl EXCEPT !.theme = m.data.theme, !.isDynamicTheme = m.data.isDynamicTheme]
      [] m.ev = "dynamicThemeUpdate" -> [cl EXCEPT !.isDynamicTheme = m.data]
      [] m.ev = "playbackState" ->
           [cl EXCEPT !.isPlaying = m.data.isPlaying,
                      !.currentTime = IF isHost THEN @ ELSE m.data.currentTime]
      [] m.ev = "userList" -> [cl EXCEPT !.users = UniqueUsers(m.data.users)]
      [] m.ev = "roomState" ->
           [cl EXCEPT !.currentSong = m.data.currentSong,
                      !.playlist = m.data.playlist,
                      !.isPlaying = m.data.isPlaying,
                      !.currentTime = m.data.currentTime,
                      !.theme = m.data.theme,
                      !.isDynamicTheme = m.data.isDynamicTheme]
      [] OTHER -> cl

\* The client of connection c after the messages msgs addressed to it, in
\* the order of their emission.
RECURSIVE ClientAfter(_, _, _, _)
ClientAfter(cl, c, isHost, msgs) ==
    IF msgs = <<>> THEN cl
    ELSE ClientAfter(IF c \in Head(msgs).to THEN ClientOn(cl, isHost, Head(msgs)) ELSE cl,
                     c, isHost, Tail(msgs))

\* Every open connection's client has handled the messages msgs; the state
\* of a closed connection's component is gone.
Deliver(cls, socks, msgs) ==
    [c \in Conns |->
        IF socks[c].status = "connected"
          THEN ClientAfter(cls[c], c, socks[c].isHost, msgs)
          ELSE NoClient]

\* ------------------------------------------------------------ page
\* The Room component behind a connection. phase: "mounted" while the socket
\* of its effect is open on the client side, "cleanup" once a change of
\* isDynamicTheme has made React clean the effect up (socket.disconnect())
\* to run it again, "left" once the component is unmounted, "rerun" while
\* the server has handled the disconnect of the old socket and not yet the
\* connection of the socket of the effect run again. dynamic: the
\* isDynamicTheme the effect was run with, which the handlers it registered
\* close over. playlist: the playlist state the component has rendered.
\* closed: the component has received roomClosed.
NoPage ==
    [phase |-> "none", dynamic |-> FALSE, playlist |-> <<>>, closed |-> FALSE,
     roomId |-> NoId, name |-> "", isHost |-> FALSE]

\* The components whose effect is being run again with the query
\* {roomId, name, isHost}.
Rerunning(pg, rid, name, isHost) ==
    { q \in Conns : /\ pg[q].phase = "rerun"
                    /\ pg[q].roomId = rid
                    /\ pg[q].name = name
                    /\ pg[q].isHost = isHost }

\* Room.tsx, lines 133-139 and 149-168: the component whose effect opened
\* connection c. A connection with the query of a component whose effect is
\* being run again is the socket of that component, which keeps its state;
\* any other is the socket of a page just loaded, with the useState
\* defaults.
PagesAfterJoin(pg, c, rid, name, isHost) ==
    LET again == Rerunning(pg, rid, name, isHost)
        old == IF again = {} THEN NoId
               ELSE CHOOSE q \in again : \A o \in again : q <= o
    IN [q \in Conns |->
          IF q = c
            THEN [NoPage EXCEPT !.phase = "mounted",
                                !.dynamic = IF old = NoId THEN FALSE ELSE pg[old].dynamic,
                                !.playlist = IF old = NoId THEN <<>> ELSE pg[old].playlist]
          ELSE IF q = old THEN NoPage
          ELSE pg[q]]

\* Room.tsx, lines 266-269 and 279-287: the components after the server has
\* handled the disconnect of connection c with the messages msgs. The
\* component of c is gone unless its effect is being run again; a component
\* that is sent roomClosed has received it if its socket is open on its side.
PagesAfterLeave(pg, c, sock, msgs) ==
    [q \in Conns |->
        IF q = c
          THEN IF pg[c].phase = "cleanup"
                 THEN [pg[c] EXCEPT !.phase = "rerun",
                                    !.roomId = sock.roomId, !.name = sock.name,
                                    !.isHost = sock.isHost]
                 ELSE NoPage
        ELSE IF /\ pg[q].phase = "mounted"
                /\ \E i \in 1..Len(msgs) : msgs[i].ev = "roomClosed" /\ q \in msgs[i].to
          THEN [pg[q] EXCEPT !.closed = TRUE]
        ELSE pg[q]]

\* The requestSync events of each connection that no sync has followed,
\* after the handler of event `kind` of connection c has emitted msgs.
UnansweredAfter(un, kind, c, msgs) ==
    [q \in Conns |->
        LET asked == IF kind = "requestSync" /\ q = c /\ un[q] < MaxUnanswered
                       THEN un[q] + 1 ELSE un[q]
            got == Cardinality({ i \in 1..Len(msgs) :
                                   msgs[i].ev = "sync" /\ q \in msgs[i].to })
        IN IF asked > got THEN asked - got ELSE 0]

\* ------------------------------------------------------------ room
\* The room object of lines 51-68.
NewRoom(sid, isHost) ==
    [host |-> IF isHost THEN sid ELSE NoId,
     playlist |-> <<>>,
     currentSong |-> Null,
     isPlaying |-> FALSE,
     currentTime |-> 0,
     users |-> <<>>,
     theme |-> DefaultTheme,
     isDynamicTheme |-> FALSE]

\* room.users.set(socket.id, {name, isHost}): a Map keeps insertion order
\* and socket ids are fresh, so the entry is appended.
UsersSet(users, sid, name, isHost) ==
    Append(users, [id |-> sid, name |-> name, isHost |-> isHost])

\* The mapping left as it was.
UsersDeleteNone(users, sid) == users

\* room.users.delete(socket.id)
UsersDelete(users, sid) == SelectSeq(users, LAMBDA u : u.id # sid)

\* First host claim wins.
HostAfterJoinFirst(host, sid, isHost) == IF isHost /\ host = NoId THEN sid ELSE host

\* if (isHost === 'true') room.host = socket.id  (lines 76-78)
HostAfterJoin(host, sid, isHost) == IF isHost THEN sid ELSE host

\* {users: Array.from(room.users.values()), count: room.users.size}
UserList(room) ==
    [users |-> [i \in 1..Len(room.users) |->
                  [name |-> room.users[i].name, isHost |-> room.users[i].isHost]],
     count |-> Len(room.users)]

\* A snapshot that leaves the current song out.
RoomStateNoSong(room) ==
    [currentSong |-> Null,
     isPlaying |-> room.isPlaying,
     currentTime |-> room.currentTime,
     playlist |-> room.playlist,
     theme |-> room.theme,
     isDynamicTheme |-> room.isDynamicTheme]

\* The roomState payload of lines 87-94.
RoomState(room) ==
    [currentSong |-> room.currentSong,
     isPlaying |-> room.isPlaying,
     currentTime |-> room.currentTime,
     playlist |-> room.playlist,
     theme |-> room.theme,
     isDynamicTheme |-> room.isDynamicTheme]

\* The host check by the handshake flag instead of the room's host.
IsHostByFlag(c) == sockets[c].isHost

\* socket.id === room.host, `room` being the closure variable of the socket
IsHost(c) == c = heap[sockets[c].room].host

\* The room object the handlers of connection c close over.
RoomOf(c) == heap[sockets[c].room]

\* The number of suspended addSong handlers of room object r.
PendingFor(r) ==
    Cardinality({ i \in 1..Len(lookups) : sockets[lookups[i].sock].room = r })

\* The handlers of connection c run: the process is up, the socket open.
CanHandle(c) ==
    /\ ~crashed
    /\ sockets[c].status = "connected"

\* A handler step that changes no room, registry or socket.
Handled(kind, c, msgs) ==
    /\ emitted' = msgs
    /\ lastEv' = Ev(kind, c)
    /\ nEvents' = IF nEvents < EventCap THEN nEvents + 1 ELSE nEvents
    /\ clients' = Deliver(clients, sockets, msgs)
    /\ unanswered' = UnansweredAfter(unanswered, kind, c, msgs)
    /\ UNCHANGED <<nextId, sockets, rooms, crashed, pages>>

\* What no handler can reach any more is garbage: the closure of a closed
\* socket with no suspended addSong, and a room object that neither the
\* registry nor the closure of a live handler refers to.
ClosedSocket == [NoSocket EXCEPT !.status = "closed"]

LiveSockets(socks, lks) ==
    Connected(socks) \cup { lks[i].sock : i \in 1..Len(lks) }

CollectSockets(socks, lks) ==
    [c \in Conns |->
        IF socks[c].status = "closed" /\ c \notin LiveSockets(socks, lks)
          THEN ClosedSocket ELSE socks[c]]

CollectHeap(socks, rms, hp, lks) ==
    [r \in Conns |->
        IF \/ \E rid \in RoomIds : rms[rid] = r
           \/ \E c \in LiveSockets(socks, lks) : socks[c].room = r
          THEN hp[r] ELSE NoRoom]

\* ------------------------------------------------------------ Init
Init ==
    /\ nextId = 1
    /\ sockets = [c \in Conns |-> NoSocket]
    /\ rooms = [r \in RoomIds |-> NoId]
    /\ heap = [c \in Conns |-> NoRoom]
    /\ lookups = <<>>
    /\ emitted = <<>>
    /\ lastEv = Ev("none", NoId)
    /\ nEvents = 0
    /\ crashed = FALSE
    /\ clients = [c \in Conns |-> NoClient]
    /\ pages = [c \in Conns |-> NoPage]
    /\ unanswered = [c \in Conns |-> 0]

\* ------------------------------------------------------------ connection
\* Every join starts from a new room object.
RoomAtJoinFresh(rid, sid, isHost) == NewRoom(sid, isHost)

\* if (!rooms.has(roomId)) rooms.set(roomId, {...}); rooms.get(roomId)
\* (lines 50-72): the object the registry holds, a new one if it holds none.
RoomAtJoin(rid, sid, isHost) ==
    IF rooms[rid] = NoId THEN NewRoom(sid, isHost) ELSE heap[rooms[rid]]

\* io.on('connection'), lines 43-94.
Connection(rid, name, isHost) ==
    /\ ~crashed
    /\ nextId <= MaxConns
    /\ LET c == nextId
           obj == IF rooms[rid] = NoId THEN c ELSE rooms[rid]
           room0 == RoomAtJoin(rid, c, isHost)
           room1 == [room0 EXCEPT !.users = UsersSet(@, c, name, isHost),
                                  !.host = HostAfterJoin(@, c, isHost)]
           socks == [sockets EXCEPT ![c] =
                        [status |-> "connected", roomId |-> rid, name |-> name,
                         isHost |-> isHost, room |-> obj]]
       IN /\ nextId' = c + 1
          /\ sockets' = socks
          /\ rooms' = [rooms EXCEPT ![rid] = obj]
          /\ heap' = [heap EXCEPT ![obj] = room1]
          /\ emitted' = << Msg(To(socks, rid), "userList", UserList(room1)),
                           Msg({c}, "roomState", RoomState(room1)) >>
          /\ clients' = Deliver(clients, socks, emitted')
          /\ pages' = PagesAfterJoin(pages, c, rid, name, isHost)
          /\ lastEv' = Ev("connection", c)
          /\ UNCHANGED <<lookups, nEvents, crashed, unanswered>>

\* The relayed message without its sender.
ChatAnonymous(name, message) ==
    [user |-> "", text |-> message.text, timestamp |-> message.timestamp]

\* {user: name, text: message.text, timestamp: message.timestamp}
ChatMessage(name, message) ==
    [user |-> name, text |-> message.text, timestamp |-> message.timestamp]

\* socket.on('message'), lines 97-103.
Message(c, message) ==
    /\ CanHandle(c)
    /\ Handled("message", c,
               << Msg(To(sockets, sockets[c].roomId), "message",
                      ChatMessage(sockets[c].name, message)) >>)
    /\ UNCHANGED <<heap, lookups>>

\* ------------------------------------------------------------ addSong
\* socket.on('addSong'), lines 106-108: the host check, then the handler
\* suspends at `await getVideoDetails(song.id)`.
AddSong(c, song) ==
    /\ CanHandle(c)
    /\ IsHost(c) =>
          /\ Len(lookups) < MaxPending
          /\ Len(RoomOf(c).playlist) + PendingFor(sockets[c].room) < MaxQueue
    /\ lookups' = IF IsHost(c) THEN Append(lookups, [sock |-> c, id |-> song.id])
                               ELSE lookups
    /\ Handled("addSong", c, <<>>)
    /\ UNCHANGED heap

\* The sequence s without its i-th element.
RemoveAt(s, i) == [j \in 1..(Len(s) - 1) |-> IF j < i THEN s[j] ELSE s[j + 1]]

\* The playlistUpdate alone.
AddSongMsgsNoChange(socks, rid, room, songDetails) ==
    << Msg(To(socks, rid), "playlistUpdate", Append(room.playlist, songDetails)) >>

\* The messages of lines 112-117, given the room before the push.
AddSongMsgs(socks, rid, room, songDetails) ==
    (IF room.currentSong = Null
       THEN << Msg(To(socks, rid), "songChange", songDetails) >>
       ELSE << >>)
    \o << Msg(To(socks, rid), "playlistUpdate", Append(room.playlist, songDetails)) >>

\* The queue left as it was.
PlaylistAfterAddNone(playlist, songDetails) == playlist

\* room.playlist.push(songDetails)  (line 110)
PlaylistAfterAdd(playlist, songDetails) == Append(playlist, songDetails)

\* Every added track becomes the current one.
CurrentAfterAddAlways(currentSong, songDetails) == songDetails

\* if (!room.currentSong) room.currentSong = songDetails  (lines 112-113)
CurrentAfterAdd(currentSong, songDetails) ==
    IF currentSong = Null THEN songDetails ELSE currentSong

\* The continuation of addSong, lines 108-117: the lookup of the i-th
\* suspended handler completes (ok: resolved, ~ok: the placeholder).
AddSongResume(i, ok) ==
    /\ ~crashed
    /\ i \in 1..Len(lookups)
    /\ LET c == lookups[i].sock
           r == sockets[c].room
           room == heap[r]
           songDetails == WithAddedBy(getVideoDetails(lookups[i].id, ok), sockets[c].name)
           hp == [heap EXCEPT ![r] =
                    [room EXCEPT !.playlist = PlaylistAfterAdd(@, songDetails),
                                 !.currentSong = CurrentAfterAdd(@, songDetails)]]
           lks == RemoveAt(lookups, i)
       IN /\ heap' = CollectHeap(sockets, rooms, hp, lks)
          /\ sockets' = CollectSockets(sockets, lks)
          /\ lookups' = lks
          /\ emitted' = AddSongMsgs(sockets, sockets[c].roomId, room, songDetails)
          /\ clients' = Deliver(clients, sockets, emitted')
          /\ lastEv' = Ev("addSongResume", c)
    /\ UNCHANGED <<nextId, rooms, nEvents, crashed, pages, unanswered>>

\* ------------------------------------------------------------ host events
\* playlist.filter(song => song.id !== songId)  (src/src/pages/Room.tsx:371)
FilterOut(playlist, songId) == SelectSeq(playlist, LAMBDA t : t.id # songId)

\* Tracks a client can put in a playlist it submits.
InputTracks == { WithAddedBy(getVideoDetails("v1", TRUE), "ann") }

\* The playlists a host submits: its filtered copies of the room's playlist,
\* and any short list of tracks.
PlaylistInputs(room) ==
    { FilterOut(room.playlist, v) : v \in TrackIds }
    \cup UNION { [1..n -> InputTracks] : n \in 0..MaxQueue }

\* The submitted tracks added to the room's.
PlaylistMerged(room, playlist) == room.playlist \o playlist

\* room.playlist = playlist  (line 124)
PlaylistAfterUpdate(room, playlist) == playlist

\* socket.on('updatePlaylist'), lines 122-127.
UpdatePlaylist(c, playlist) ==
    /\ CanHandle(c)
    /\ IsHost(c) => Len(playlist) + PendingFor(sockets[c].room) <= MaxQueue
    /\ IF IsHost(c)
         THEN /\ heap' = [heap EXCEPT ![sockets[c].room].playlist =
                                        PlaylistAfterUpdate(RoomOf(c), playlist)]
              /\ Handled("updatePlaylist", c,
                         << Msg(To(sockets, sockets[c].roomId), "playlistUpdate", playlist) >>)
         ELSE /\ heap' = heap
              /\ Handled("updatePlaylist", c, <<>>)
    /\ UNCHANGED lookups

\* The dynamic flag never set by a theme.
DynamicNever(theme) == FALSE

\* room.isDynamicTheme = theme.id === 'dynamic'  (line 135)
DynamicOf(theme) == theme.id = "dynamic"

\* socket.on('updateTheme'), lines 130-139.
UpdateTheme(c, theme) ==
    /\ CanHandle(c)
    /\ IF IsHost(c) /\ ThemeComplete(theme)
         THEN /\ heap' = [heap EXCEPT ![sockets[c].room].theme = theme,
                                      ![sockets[c].room].isDynamicTheme = DynamicOf(theme)]
              /\ Handled("updateTheme", c,
                         << Msg(To(sockets, sockets[c].roomId), "themeUpdate",
                                [theme |-> theme, isDynamicTheme |-> DynamicOf(theme)]) >>)
         ELSE /\ heap' = heap
              /\ Handled("updateTheme", c, <<>>)
    /\ UNCHANGED lookups

\* The flag a toggle leaves: the opposite of the room's.
FlagFlipped(room, isDynamic) == ~room.isDynamicTheme

\* room.isDynamicTheme = isDynamic  (line 144)
FlagAfter(room, isDynamic) == isDynamic

\* socket.on('toggleDynamicTheme'), lines 142-147.
ToggleDynamicTheme(c, isDynamic) ==
    /\ CanHandle(c)
    /\ IF IsHost(c)
         THEN /\ heap' = [heap EXCEPT ![sockets[c].room].isDynamicTheme =
                                        FlagAfter(RoomOf(c), isDynamic)]
              /\ Handled("toggleDynamicTheme", c,
                         << Msg(To(sockets, sockets[c].roomId), "dynamicThemeUpdate", isDynamic) >>)
         ELSE /\ heap' = heap
              /\ Handled("toggleDynamicTheme", c, <<>>)
    /\ UNCHANGED lookups

PlaybackInputs == [isPlaying : BOOLEAN, currentTime : Times \ {0}]

\* The flag set only while a current song exists.
PlayingGuarded(room, state) == state.isPlaying /\ room.currentSong # Null

\* room.isPlaying = state.isPlaying  (line 152)
PlayingAfter(room, state) == state.isPlaying

\* socket.on('playbackState'), lines 150-157.
PlaybackState(c, state) ==
    /\ CanHandle(c)
    /\ IF IsHost(c)
         THEN /\ heap' = [heap EXCEPT ![sockets[c].room].isPlaying = PlayingAfter(RoomOf(c), state),
                                      ![sockets[c].room].currentTime = state.currentTime]
              /\ Handled("playbackState", c,
                         << Msg(To(sockets, sockets[c].roomId), "playbackState", state) >>)
         ELSE /\ heap' = heap
              /\ Handled("playbackState", c, <<>>)
    /\ UNCHANGED lookups

\* room.playlist.findIndex(song => song.id === id): 1-based, 0 for -1.
FindIndex(playlist, id) ==
    IF \E i \in 1..Len(playlist) : playlist[i].id = id
      THEN CHOOSE i \in 1..Len(playlist) :
             /\ playlist[i].id = id
             /\ \A j \in 1..(i - 1) : playlist[j].id # id
      ELSE 0

\* The playlist after lines 163-166.
PlaylistAfterEnd(room) ==
    LET currentIndex == FindIndex(room.playlist, room.currentSong.id)
    IN IF currentIndex # 0 THEN RemoveAt(room.playlist, currentIndex) ELSE room.playlist

\* The current song after lines 169-175, given the playlist after the splice.
NextSong(playlist) == IF Len(playlist) > 0 THEN playlist[1] ELSE Null

\* playlistUpdate before songChange.
SongEndedMsgsSwapped(socks, rid, playlist) ==
    << Msg(To(socks, rid), "playlistUpdate", playlist),
       Msg(To(socks, rid), "songChange", NextSong(playlist)) >>

\* The messages of lines 171-177.
SongEndedMsgs(socks, rid, playlist) ==
    << Msg(To(socks, rid), "songChange", NextSong(playlist)),
       Msg(To(socks, rid), "playlistUpdate", playlist) >>

\* socket.id === room.host && room.playlist.length > 0  (line 161)
SongEndedGuard(c) == IsHost(c) /\ Len(RoomOf(c).playlist) > 0

\* socket.on('songEnded'), lines 160-179. With a null current song the read
\* of room.currentSong.id (line 163) throws a TypeError out of the handler.
SongEnded(c) ==
    /\ CanHandle(c)
    /\ lookups' = lookups
    /\ IF ~SongEndedGuard(c)
         THEN /\ heap' = heap
              /\ Handled("songEnded", c, <<>>)
         ELSE IF RoomOf(c).currentSong = Null
         THEN /\ crashed' = TRUE
              /\ emitted' = <<>>
              /\ lastEv' = Ev("songEnded", c)
              /\ nEvents' = nEvents + 1
              /\ UNCHANGED <<nextId, sockets, rooms, heap, clients, pages, unanswered>>
         ELSE LET playlist == PlaylistAfterEnd(RoomOf(c))
              IN /\ heap' = [heap EXCEPT ![sockets[c].room].playlist = playlist,
                                         ![sockets[c].room].currentSong = NextSong(playlist)]
                 /\ Handled("songEnded", c,
                            SongEndedMsgs(sockets, sockets[c].roomId, playlist))

\* ------------------------------------------------------------ sync
\* The syncRequest emitted to the whole room.
SyncRequestToRoom(c) == sockets[c].roomId

\* The room name of the syncRequest emit: io.to(room.host)  (line 184)
SyncRequestTarget(c) == RoomOf(c).host

\* socket.on('requestSync'), lines 182-186.
RequestSync(c) ==
    /\ CanHandle(c)
    /\ Handled("requestSync", c,
               IF ~IsHost(c)
                 THEN << Msg(To(sockets, SyncRequestTarget(c)), "syncRequest", [userId |-> c]) >>
                 ELSE << >>)
    /\ UNCHANGED <<heap, lookups>>

\* What a host can name in syncResponse.userId: any socket id, any room id.
SyncInputs == [userId : Conns \cup RoomIds, currentTime : Times \ {0}, isPlaying : {TRUE}]

\* The room name of the sync emit: io.to(data.userId)  (line 191)
SyncTarget(data) == data.userId

\* socket.on('syncResponse'), lines 189-196.
SyncResponse(c, data) ==
    /\ CanHandle(c)
    /\ Handled("syncResponse", c,
               IF IsHost(c)
                 THEN << Msg(To(sockets, SyncTarget(data)), "sync",
                             [currentTime |-> data.currentTime, isPlaying |-> data.isPlaying]) >>
                 ELSE << >>)
    /\ UNCHANGED <<heap, lookups>>

\* ------------------------------------------------------------ disconnect
\* The room closed by any connection that joined with host intent.
ClosesRoomByFlag(c) == sockets[c].isHost

\* The room closed by the connection that created it.
ClosesRoomByCreator(c) == sockets[c].room = c

\* No disconnect closes the room.
ClosesRoomNever(c) == FALSE

\* socket.id === room.host  (line 209)
ClosesRoom(c) == IsHost(c)

\* socket.on('disconnect'), lines 199-215. socket.io has taken the socket
\* out of its rooms before the handler runs.
Disconnect(c) ==
    /\ ~crashed
    /\ sockets[c].status = "connected"
    /\ LET rid == sockets[c].roomId
           r == sockets[c].room
           socks == [sockets EXCEPT ![c].status = "closed"]
           room1 == [heap[r] EXCEPT !.users = UsersDelete(@, c)]
           rms == IF ClosesRoom(c) THEN [rooms EXCEPT ![rid] = NoId] ELSE rooms
       IN /\ sockets' = CollectSockets(socks, lookups)
          /\ heap' = CollectHeap(socks, rms, [heap EXCEPT ![r] = room1], lookups)
          /\ rooms' = rms
          /\ emitted' = << Msg(To(socks, rid), "userList", UserList(room1)) >>
                        \o (IF ClosesRoom(c)
                              THEN << Msg(To(socks, rid), "roomClosed", Null) >>
                              ELSE << >>)
          /\ clients' = Deliver(clients, socks, emitted')
          /\ pages' = PagesAfterLeave(pages, c, sockets[c], emitted')
          /\ unanswered' = [unanswered EXCEPT ![c] = 0]
          /\ lastEv' = Ev("disconnect", c)
    /\ UNCHANGED <<nextId, lookups, nEvents, crashed>>

\* ------------------------------------------------------------ Next
\* Room ids are interchangeable: the first connection's is fixed.
FirstRoom == 100 + 1

\* The display names of the connections: every other connection shares one.
NameOf(c) == IF c % 2 = 1 THEN "ann" ELSE "bob"

MessageInputs == [text : Texts, timestamp : Times \ {0}]

SongInputs == [id : TrackIds]

\* Connections open in the rooms `roomIds`.
Connect(roomIds) ==
    \E rid \in roomIds, isHost \in BOOLEAN :
        /\ nextId = 1 => rid = FirstRoom
        /\ Connection(rid, NameOf(nextId), isHost)

\* Every event, in every room, at most MaxEvents client events.
Next ==
    \/ Connect(RoomIds)
    \/ \E i \in 1..MaxPending, ok \in BOOLEAN : AddSongResume(i, ok)
    \/ \E c \in Conns : Disconnect(c)
    \/ \E c \in Conns, m \in MessageInputs : nEvents < MaxEvents /\ Message(c, m)
    \/ \E c \in Conns, song \in SongInputs : nEvents < MaxEvents /\ AddSong(c, song)
    \/ \E c \in Connected(sockets) : \E playlist \in PlaylistInputs(RoomOf(c)) :
          nEvents < MaxEvents /\ UpdatePlaylist(c, playlist)
    \/ \E c \in Conns, theme \in ThemeInputs : nEvents < MaxEvents /\ UpdateTheme(c, theme)
    \/ \E c \in Conns, isDynamic \in BOOLEAN :
          nEvents < MaxEvents /\ ToggleDynamicTheme(c, isDynamic)
    \/ \E c \in Conns, state \in PlaybackInputs : nEvents < MaxEvents /\ PlaybackState(c, state)
    \/ \E c \in Conns : nEvents < MaxEvents /\ SongEnded(c)
    \/ \E c \in Conns : nEvents < MaxEvents /\ RequestSync(c)
    \/ \E c \in Conns, data \in SyncInputs : nEvents < MaxEvents /\ SyncResponse(c, data)

Spec == Init /\ [][Next]_vars

\* One room, the queue events and playbackState, at most MaxQueueEvents
\* client events.
NextQueue ==
    \/ Connect({FirstRoom})
    \/ \E i \in 1..MaxPending, ok \in BOOLEAN : AddSongResume(i, ok)
    \/ \E c \in Conns : Disconnect(c)
    \/ \E c \in Conns, song \in SongInputs : nEvents < MaxQueueEvents /\ AddSong(c, song)
    \/ \E c \in Connected(sockets) : \E playlist \in PlaylistInputs(RoomOf(c)) :
          nEvents < MaxQueueEvents /\ UpdatePlaylist(c, playlist)
    \/ \E c \in Conns, state \in PlaybackInputs :
          nEvents < MaxQueueEvents /\ PlaybackState(c, state)
    \/ \E c \in Conns : nEvents < MaxQueueEvents /\ SongEnded(c)

SpecQueue == Init /\ [][NextQueue]_vars

\* The same, with metadata lookups that always return: a suspended addSong
\* is resumed whenever the process is up.
Lookups == \E i \in 1..MaxPending, ok \in BOOLEAN : AddSongResume(i, ok)

SpecAdd == Init /\ [][NextQueue]_vars /\ WF_vars(Lookups)

\* One room whose connections are driven by the Room component: a client that
\* joined as listener emits requestSync on connect and on its 5-second timer
\* (Room.tsx, lines 181-186 and 273-277) and sends chat messages; a client
\* that joined as host reports its player's state (lines 308-317). No
\* handler of the component is registered for syncRequest and nothing in it
\* emits syncResponse, so a delivered syncRequest is followed by no event.
\* At most MaxSyncEvents chat messages and playback reports; the timers of
\* the listeners never stop. Once the count of events has stopped, one more
\* requestSync of the listener that sent the last one repeats the same
\* relay and leaves the state as it is.
NextSync ==
    \/ Connect({FirstRoom})
    \/ \E c \in Conns : Disconnect(c)
    \/ \E c \in Conns : ~sockets[c].isHost /\ RequestSync(c)
    \/ \E c \in Conns, m \in MessageInputs :
          nEvents < MaxSyncEvents /\ Message(c, m)
    \/ \E c \in Conns, state \in PlaybackInputs :
          nEvents < MaxSyncEvents /\ sockets[c].isHost /\ PlaybackState(c, state)

\* The steps that happen whenever they can: the timers fire and the server
\* handles what it receives. Joining and leaving are up to the users.
SyncEvents ==
    \/ \E c \in Conns : ~sockets[c].isHost /\ RequestSync(c)
    \/ \E c \in Conns, state \in PlaybackInputs :
          nEvents < MaxSyncEvents /\ sockets[c].isHost /\ PlaybackState(c, state)

SpecSync == Init /\ [][NextSync]_vars /\ WF_vars(SyncEvents)

\* ------------------------------------------------------------ Room.tsx
\* The socket of the component of connection c is open on both sides.
Mounted(c) == pages[c].phase = "mounted" /\ sockets[c].status = "connected"

\* Every component has the controls.
MayControlAny(c) == Mounted(c)

\* if (!socket || !isHost) return  (Room.tsx, lines 309, 326, 339, 344, 370):
\* isHost is the flag of location.state, the one of the handshake query.
MayControl(c) == Mounted(c) /\ sockets[c].isHost

\* The component has state it has not rendered, or has been told that the
\* room is closed.
Stale(c) ==
    \/ pages[c].playlist # clients[c].playlist
    \/ pages[c].dynamic # clients[c].isDynamicTheme
    \/ pages[c].closed

\* The component stays on the page when the room is closed.
PageAfterRenderStays(pg, cl) ==
    [pg EXCEPT !.playlist = cl.playlist,
               !.dynamic = cl.isDynamicTheme,
               !.closed = FALSE,
               !.phase = IF pg.dynamic # cl.isDynamicTheme THEN "cleanup" ELSE "mounted"]

\* The component after React has rendered the state cl. roomClosed has
\* called navigate('/') (lines 266-269): the component is unmounted and the
\* cleanup of its effect disconnects the socket (lines 279-286). A changed
\* isDynamicTheme is a changed dependency of the effect (line 287): React
\* cleans the effect up, which disconnects the socket, and runs it again.
PageAfterRender(pg, cl) ==
    [pg EXCEPT !.playlist = cl.playlist,
               !.dynamic = cl.isDynamicTheme,
               !.phase = IF pg.closed THEN "left"
                         ELSE IF pg.dynamic # cl.isDynamicTheme THEN "cleanup"
                         ELSE "mounted"]

\* A step of a component alone: the server is not involved.
Local(kind, c) ==
    /\ emitted' = <<>>
    /\ lastEv' = Ev(kind, c)
    /\ UNCHANGED <<nextId, sockets, rooms, heap, lookups, nEvents, crashed,
                   clients, unanswered>>

\* React renders the component of connection c with the state its handlers
\* have set.
Render(c) ==
    /\ Mounted(c)
    /\ Stale(c)
    /\ pages' = [pages EXCEPT ![c] = PageAfterRender(@, clients[c])]
    /\ Local("render", c)

\* The user leaves the room page: the component is unmounted and the
\* cleanup of its effect disconnects the socket (lines 279-286).
LeavePage(c) ==
    /\ Mounted(c)
    /\ pages' = [pages EXCEPT ![c].phase = "left"]
    /\ Local("leave", c)

\* The server handles the disconnect of a socket its component has
\* disconnected.
Closing(c) ==
    /\ pages[c].phase \in {"cleanup", "left"}
    /\ Disconnect(c)

\* The socket of an effect that is run again connects (lines 160-168).
Rerun(q) ==
    /\ pages[q].phase = "rerun"
    /\ Connection(pages[q].roomId, pages[q].name, pages[q].isHost)

\* handleAddSong, Room.tsx lines 325-336.
HandleAddSong(c, song) == MayControl(c) /\ AddSong(c, song)

\* handleRemoveFromPlaylist, lines 369-373, called by the button of an
\* entry of the rendered playlist (lines 724-726): the rendered playlist
\* without the entries of that entry's id is submitted.
HandleRemoveFromPlaylist(c, songId) ==
    /\ MayControl(c)
    /\ \E i \in 1..Len(pages[c].playlist) : pages[c].playlist[i].id = songId
    /\ UpdatePlaylist(c, FilterOut(pages[c].playlist, songId))

\* handleThemeChange, lines 338-341, with a theme of the selector.
HandleThemeChange(c, theme) == MayControl(c) /\ UpdateTheme(c, theme)

\* handleToggleDynamicTheme, lines 343-347: the negation of the rendered
\* isDynamicTheme is sent.
HandleToggleDynamicTheme(c) ==
    /\ MayControl(c)
    /\ ToggleDynamicTheme(c, ~pages[c].dynamic)

\* handlePlayerStateChange, lines 308-317.
HandlePlayerStateChange(c, state) == MayControl(c) /\ PlaybackState(c, state)

\* handlePlayerStateChange, lines 319-322: the player has ended. The
\* playbackState the same call emits first (lines 313-316) is a step of
\* its own at the server, HandlePlayerStateChange with a state that is not
\* playing; other events of the room may be handled between the two.
HandlePlayerEnded(c) == MayControl(c) /\ SongEnded(c)

\* One room whose connections are Room components: of the events that
\* change a room they emit what Room.tsx emits, they render the state they
\* receive after they have received it, and they disconnect when the
\* component is unmounted or its effect is cleaned up. The disconnect of the
\* old socket of an effect that is run again is handled before the
\* connection of its new socket. At most MaxRoomEvents client events: the
\* updateTheme that follows a songChange or the switching on of the flag
\* (lines 196-214 and 350-357) needs a current song and a set flag, which
\* takes more events than that.
NextRoom ==
    \/ Connect({FirstRoom})
    \/ \E q \in Conns : Rerun(q)
    \/ \E c \in Conns : Render(c)
    \/ \E c \in Conns : LeavePage(c)
    \/ \E c \in Conns : Closing(c)
    \/ \E i \in 1..MaxPending, ok \in BOOLEAN : AddSongResume(i, ok)
    \/ \E c \in Conns, song \in SongInputs :
          nEvents < MaxRoomEvents /\ HandleAddSong(c, song)
    \/ \E c \in Conns, songId \in TrackIds :
          nEvents < MaxRoomEvents /\ HandleRemoveFromPlaylist(c, songId)
    \/ \E c \in Conns : nEvents < MaxRoomEvents /\ HandleThemeChange(c, SynthwaveTheme)
    \/ \E c \in Conns : nEvents < MaxRoomEvents /\ HandleToggleDynamicTheme(c)
    \/ \E c \in Conns, state \in PlaybackInputs :
          nEvents < MaxRoomEvents /\ HandlePlayerStateChange(c, state)
    \/ \E c \in Conns : nEvents < MaxRoomEvents /\ HandlePlayerEnded(c)

SpecRoom == Init /\ [][NextRoom]_vars

\* The same room with the dynamic theme switch as its only control. React
\* renders, and the server handles the disconnect of a socket its component
\* has disconnected, whenever they can. Joining and leaving are up to the
\* users.
NextLeave ==
    \/ Connect({FirstRoom})
    \/ \E q \in Conns : Rerun(q)
    \/ \E c \in Conns : Render(c)
    \/ \E c \in Conns : LeavePage(c)
    \/ \E c \in Conns : Closing(c)
    \/ \E c \in Conns : nEvents < MaxRoomEvents /\ HandleToggleDynamicTheme(c)

SpecLeave ==
    /\ Init
    /\ [][NextLeave]_vars
    /\ \A c \in Conns : WF_vars(Render(c)) /\ WF_vars(Closing(c))

\* The same room with components that stay, and the queue controls of the
\* host: at most MaxRemoveEvents additions and removals.
NextRemove ==
    \/ Connect({FirstRoom})
    \/ \E c \in Conns : Render(c)
    \/ \E i \in 1..MaxPending, ok \in BOOLEAN : AddSongResume(i, ok)
    \/ \E c \in Conns, song \in SongInputs :
          nEvents < MaxRemoveEvents /\ HandleAddSong(c, song)
    \/ \E c \in Conns, songId \in TrackIds :
          nEvents < MaxRemoveEvents /\ HandleRemoveFromPlaylist(c, songId)

SpecRemove == Init /\ [][NextRemove]_vars

\* ------------------------------------------------------------ claims
MutatingKinds ==
    {"addSong", "updatePlaylist", "updateTheme", "toggleDynamicTheme",
     "playbackState", "songEnded"}

\* The host recorded in the room object connection c acts on.
HostField(c) == heap[sockets[c].room].host

\* The connections in the participant mapping of room object r.
Members(r) == { heap[r].users[i].id : i \in 1..Len(heap[r].users) }

\* The step handles the client event `kind` of connection c.
EventStep(kind, c) == nEvents' = nEvents + 1 /\ lastEv' = Ev(kind, c)

\* The step opens, closes connection c.
JoinStep(c) == sockets[c].status = "none" /\ sockets'[c].status = "connected"
LeaveStep(c) == sockets[c].status = "connected" /\ sockets'[c].status = "closed"

\* The step resumes a suspended addSong of connection c, for the track `id`.
ResumeStep(c, id) ==
    /\ lastEv' = Ev("addSongResume", c)
    /\ \E i \in 1..Len(lookups) :
          /\ lookups[i] = [sock |-> c, id |-> id]
          /\ lookups' = RemoveAt(lookups, i)

\* C1: a mutating event received from a connection that is not the host of
\* its room (a listener, a former host, a room without host) changes no
\* room, registry entry or suspended handler and emits nothing.
C1_NonHostEventDropped ==
    [][ \A c \in Conns, kind \in MutatingKinds :
          (EventStep(kind, c) /\ HostField(c) # c)
            => /\ heap' = heap
               /\ rooms' = rooms
               /\ sockets' = sockets
               /\ lookups' = lookups
               /\ crashed' = crashed
               /\ emitted' = <<>> ]_vars

\* A former host, superseded by a later host claim, has sent a mutating event.
C1_Witness ==
    /\ lastEv.kind \in MutatingKinds
    /\ sockets[lastEv.sock].status = "connected"
    /\ sockets[lastEv.sock].isHost
    /\ HostField(lastEv.sock) # lastEv.sock
    /\ HostField(lastEv.sock) \in Connected(sockets)
    /\ emitted = <<>>

\* C2: for every room id, at most one open connection passes the host check
\* of the room object its handlers act on.
C2_AtMostOneHost ==
    \A rid \in RoomIds :
        Cardinality({ c \in Connected(sockets) :
                        sockets[c].roomId = rid /\ HostField(c) = c }) <= 1

\* Two open connections that both joined one room with host intent.
C2_Witness ==
    \E c, d \in Connected(sockets) :
        /\ c # d
        /\ sockets[c].roomId = sockets[d].roomId
        /\ sockets[c].isHost /\ sockets[d].isHost
        /\ HostField(d) = d

\* C3: in every room, a null current track implies the playback flag is off.
C3_NullTrackNotPlaying ==
    \A r \in Conns :
        (heap[r] # NoRoom /\ heap[r].currentSong = Null) => ~heap[r].isPlaying

\* C4: the host's disconnect removes the room from the registry and delivers
\* roomClosed to every remaining participant; a join that finds no registry
\* entry for its room id gets a fresh room: it alone as participant, empty
\* queue, null current track, the default theme, isDynamicTheme false.
C4_HostLeaveClosesRoom ==
    [][ /\ \A c \in Conns :
             (LeaveStep(c) /\ HostField(c) = c)
               => /\ rooms'[sockets[c].roomId] = NoId
                  /\ \E i \in 1..Len(emitted') :
                        /\ emitted'[i].ev = "roomClosed"
                        /\ (Members(sockets[c].room) \ {c}) \subseteq emitted'[i].to
        /\ \A c \in Conns :
             (JoinStep(c) /\ rooms[sockets'[c].roomId] = NoId)
               => /\ rooms'[sockets'[c].roomId] = sockets'[c].room
                  /\ heap'[sockets'[c].room].playlist = <<>>
                  /\ heap'[sockets'[c].room].currentSong = Null
                  /\ heap'[sockets'[c].room].theme = DefaultTheme
                  /\ heap'[sockets'[c].room].isDynamicTheme = FALSE
                  /\ heap'[sockets'[c].room].isPlaying = FALSE
                  /\ { heap'[sockets'[c].room].users[i].id :
                         i \in 1..Len(heap'[sockets'[c].room].users) } = {c} ]_vars

\* A connection has just joined the room id of a destroyed room whose
\* listener is still connected and whose theme was changed.
C4_Witness ==
    /\ lastEv.kind = "connection"
    /\ sockets[lastEv.sock].room = lastEv.sock
    /\ \E d \in Connected(sockets) :
          /\ sockets[d].roomId = sockets[lastEv.sock].roomId
          /\ sockets[d].room # lastEv.sock
          /\ HostField(d) \notin Connected(sockets)
          /\ HostField(d) # NoId
          /\ heap[sockets[d].room].theme # DefaultTheme

\* C5 as claimed: an addSong applied to a room whose queue is empty emits
\* songChange with the resolved track, then playlistUpdate with that track
\* alone, to all participants.
C5_EmptyQueueAdd ==
    [][ \A c \in Conns, id \in TrackIds :
          (ResumeStep(c, id) /\ heap[sockets[c].room].playlist = <<>>)
            => /\ Len(emitted') = 2
               /\ emitted'[1].ev = "songChange"
               /\ emitted'[1].data.id = id
               /\ Members(sockets[c].room) \subseteq emitted'[1].to
               /\ emitted'[2].ev = "playlistUpdate"
               /\ emitted'[2].data = << emitted'[1].data >>
               /\ Members(sockets[c].room) \subseteq emitted'[2].to ]_vars

\* C5 amended: the same, for a room whose queue is empty and whose current
\* track is null when the addSong is applied; with an empty queue and a
\* current track still set, playlistUpdate alone is emitted.
C5_EmptyRoomAdd ==
    [][ \A c \in Conns, id \in TrackIds :
          (ResumeStep(c, id) /\ heap[sockets[c].room].playlist = <<>>)
            => IF heap[sockets[c].room].currentSong = Null
                 THEN /\ Len(emitted') = 2
                      /\ emitted'[1].ev = "songChange"
                      /\ emitted'[1].data.id = id
                      /\ Members(sockets[c].room) \subseteq emitted'[1].to
                      /\ emitted'[2].ev = "playlistUpdate"
                      /\ emitted'[2].data = << emitted'[1].data >>
                      /\ Members(sockets[c].room) \subseteq emitted'[2].to
                 ELSE /\ Len(emitted') = 1
                      /\ emitted'[1].ev = "playlistUpdate"
                      /\ Len(emitted'[1].data) = 1
                      /\ emitted'[1].data[1].id = id ]_vars

\* An addSong was applied to an empty room with a listener: songChange, then
\* a playlistUpdate of one entry, both delivered to host and listener.
C5_Witness ==
    /\ lastEv.kind = "addSongResume"
    /\ Len(emitted) = 2
    /\ emitted[1].ev = "songChange"
    /\ emitted[2].ev = "playlistUpdate"
    /\ Len(emitted[2].data) = 1
    /\ Cardinality(emitted[1].to) >= 2
    /\ lastEv.sock \in emitted[1].to

\* C6: a host songEnded with the current track at the head of the queue
\* removes the head; the next entry, or null when none is left, becomes the
\* current track; songChange with it, then playlistUpdate with the rest, go
\* to all participants.
C6_SongEndedAdvances ==
    [][ \A c \in Conns :
          LET room == heap[sockets[c].room]
              rest == Tail(room.playlist)
              next == IF rest = <<>> THEN Null ELSE rest[1]
          IN (/\ EventStep("songEnded", c)
              /\ HostField(c) = c
              /\ room.currentSong # Null
              /\ room.playlist # <<>>
              /\ room.playlist[1].id = room.currentSong.id)
               => /\ heap'[sockets[c].room].playlist = rest
                  /\ heap'[sockets[c].room].currentSong = next
                  /\ Len(emitted') = 2
                  /\ emitted'[1].ev = "songChange"
                  /\ emitted'[1].data = next
                  /\ emitted'[2].ev = "playlistUpdate"
                  /\ emitted'[2].data = rest
                  /\ Members(sockets[c].room) \subseteq emitted'[1].to
                  /\ Members(sockets[c].room) \subseteq emitted'[2].to ]_vars

\* A host songEnded has advanced a queue of two to its second entry, with a
\* listener in the room.
C6_Witness ==
    /\ lastEv.kind = "songEnded"
    /\ HostField(lastEv.sock) = lastEv.sock
    /\ Len(emitted) = 2
    /\ emitted[1].ev = "songChange"
    /\ emitted[1].data # Null
    /\ Len(heap[sockets[lastEv.sock].room].playlist) = 1
    /\ Cardinality(emitted[1].to) >= 2

\* C7 as claimed: a requestSync of a non-host emits one syncRequest carrying
\* its connection id, delivered to the room's host connection alone; a
\* requestSync of the host emits nothing.
C7_SyncRequestToHost ==
    [][ \A c \in Conns :
          EventStep("requestSync", c)
            => IF HostField(c) = c
                 THEN emitted' = <<>>
                 ELSE /\ Len(emitted') = 1
                      /\ emitted'[1].ev = "syncRequest"
                      /\ emitted'[1].data = [userId |-> c]
                      /\ emitted'[1].to = {HostField(c)} ]_vars

\* C7 amended: the one syncRequest is delivered to the room's host
\* connection alone when that connection is open, and to no connection when
\* the room has no host or its host has disconnected.
C7_SyncRequestToOpenHost ==
    [][ \A c \in Conns :
          EventStep("requestSync", c)
            => IF HostField(c) = c
                 THEN emitted' = <<>>
                 ELSE /\ Len(emitted') = 1
                      /\ emitted'[1].ev = "syncRequest"
                      /\ emitted'[1].data = [userId |-> c]
                      /\ emitted'[1].to = {HostField(c)} \cap Connected(sockets) ]_vars

\* A listener's requestSync was relayed to the host, in a room with a
\* second listener.
C7_Witness ==
    /\ lastEv.kind = "requestSync"
    /\ Len(emitted) = 1
    /\ emitted[1].to = {HostField(lastEv.sock)}
    /\ \E d \in Connected(sockets) \ {lastEv.sock, HostField(lastEv.sock)} :
          sockets[d].room = sockets[lastEv.sock].room

\* C8: a host syncResponse emits one sync with its position and flag,
\* delivered to one connection at most, whatever userId names; a
\* syncResponse of a non-host emits nothing.
C8_SyncToOneConnection ==
    [][ \A c \in Conns :
          EventStep("syncResponse", c)
            => IF HostField(c) = c
                 THEN /\ Len(emitted') = 1
                      /\ emitted'[1].ev = "sync"
                      /\ Cardinality(emitted'[1].to) <= 1
                 ELSE emitted' = <<>> ]_vars

\* The last open connection that joined room object r with host intent, if
\* r is the registry's room for its id.
LastClaimer(r) ==
    LET claimers == { d \in Connected(sockets) :
                        /\ sockets[d].room = r
                        /\ sockets[d].isHost
                        /\ rooms[sockets[d].roomId] = r }
    IN IF claimers = {} THEN NoId ELSE SetMax(claimers)

\* C9: a join with host intent makes the joiner the host of the room; an
\* updatePlaylist, toggleDynamicTheme or playbackState is accepted (is
\* broadcast) exactly when its sender is the last connection that joined
\* the room with host intent.
C9_LastHostClaimWins ==
    [][ /\ \A c \in Conns :
             (JoinStep(c) /\ sockets'[c].isHost)
               => heap'[sockets'[c].room].host = c
        /\ \A c \in Conns, kind \in {"updatePlaylist", "toggleDynamicTheme", "playbackState"} :
             EventStep(kind, c)
               => (emitted' # <<>>  <=>  c = LastClaimer(sockets[c].room)) ]_vars

\* The host's event was accepted while the previous host, superseded by its
\* host claim, is still connected in the room.
C9_Witness ==
    /\ lastEv.kind \in {"updatePlaylist", "toggleDynamicTheme", "playbackState"}
    /\ emitted # <<>>
    /\ \E d \in Connected(sockets) :
          /\ d < lastEv.sock
          /\ sockets[d].room = sockets[lastEv.sock].room
          /\ sockets[d].isHost

\* C10: a join emits userList to all participants of the room, the joiner
\* included, then roomState to the joiner alone, carrying the room's current
\* song, playlist, playback flag and position, theme and dynamic flag.
C10_JoinSnapshot ==
    lastEv.kind = "connection"
      => LET c == lastEv.sock
             room == heap[sockets[c].room]
         IN /\ Len(emitted) = 2
            /\ emitted[1].ev = "userList"
            /\ Members(sockets[c].room) \subseteq emitted[1].to
            /\ c \in emitted[1].to
            /\ emitted[2].ev = "roomState"
            /\ emitted[2].to = {c}
            /\ emitted[2].data.currentSong = room.currentSong
            /\ emitted[2].data.playlist = room.playlist
            /\ emitted[2].data.isPlaying = room.isPlaying
            /\ emitted[2].data.currentTime = room.currentTime
            /\ emitted[2].data.theme = room.theme
            /\ emitted[2].data.isDynamicTheme = room.isDynamicTheme

\* A listener has joined a room whose host had added a track.
C10_Witness ==
    /\ lastEv.kind = "connection"
    /\ HostField(lastEv.sock) \in Connected(sockets) \ {lastEv.sock}
    /\ emitted[2].data.currentSong # Null
    /\ emitted[2].data.playlist # <<>>

\* The number of entries of the user list `users` that carry the name n.
CountName(users, n) == Cardinality({ i \in 1..Len(users) : users[i].name = n })

\* The first entry of room object r's participant mapping with the name n,
\* as a userList entry.
FirstSeen(room, n) ==
    LET i == CHOOSE i \in 1..Len(room.users) :
                 /\ room.users[i].name = n
                 /\ \A j \in 1..(i - 1) : room.users[j].name # n
    IN [name |-> n, isHost |-> room.users[i].isHost]

\* The step admits connection c to a registered room in which another
\* connection already uses c's display name.
JoinsWithUsedName(c) ==
    /\ JoinStep(c)
    /\ rooms[sockets'[c].roomId] # NoId
    /\ CountName(heap[rooms[sockets'[c].roomId]].users, sockets'[c].name) > 0

\* C11 as claimed: a join under a display name already used in the room
\* raises the raw count by one, and the users of the emitted userList carry
\* that name exactly once, in its first-seen entry.
C11_UserListDeduplicated ==
    [][ \A c \in Conns :
          JoinsWithUsedName(c)
            => LET r == sockets'[c].room
                   n == sockets'[c].name
               IN /\ Len(heap'[r].users) = Len(heap[r].users) + 1
                  /\ emitted'[1].ev = "userList"
                  /\ emitted'[1].data.count = Len(heap[r].users) + 1
                  /\ CountName(emitted'[1].data.users, n) = 1
                  /\ \E i \in 1..Len(emitted'[1].data.users) :
                        emitted'[1].data.users[i] = FirstSeen(heap'[r], n) ]_vars

\* C11 amended: the join raises the raw count by one; the emitted userList
\* carries one entry per connection, so the shared name once for each
\* connection that uses it; the list every receiving client keeps after its
\* userList handler carries that name exactly once, in its first-seen entry.
C11_ClientListDeduplicated ==
    [][ \A c \in Conns :
          JoinsWithUsedName(c)
            => LET r == sockets'[c].room
                   n == sockets'[c].name
               IN /\ Len(heap'[r].users) = Len(heap[r].users) + 1
                  /\ emitted'[1].ev = "userList"
                  /\ emitted'[1].data.count = Len(heap[r].users) + 1
                  /\ Len(emitted'[1].data.users) = emitted'[1].data.count
                  /\ CountName(emitted'[1].data.users, n) = CountName(heap[r].users, n) + 1
                  /\ c \in emitted'[1].to
                  /\ \A d \in emitted'[1].to :
                        /\ CountName(clients'[d].users, n) = 1
                        /\ \E i \in 1..Len(clients'[d].users) :
                              clients'[d].users[i] = FirstSeen(heap'[r], n) ]_vars

\* A connection has joined a room in which an open connection with the
\* other host flag already uses its name: the count is above the length of
\* the list the joiner's client keeps.
C11_Witness ==
    /\ lastEv.kind = "connection"
    /\ \E d \in Connected(sockets) \ {lastEv.sock} :
          /\ sockets[d].room = sockets[lastEv.sock].room
          /\ sockets[d].name = sockets[lastEv.sock].name
          /\ sockets[d].isHost # sockets[lastEv.sock].isHost
    /\ emitted[1].data.count > Len(clients[lastEv.sock].users)
    /\ CountName(clients[lastEv.sock].users, sockets[lastEv.sock].name) = 1

\* C12: the disconnect of a connection that is not the host of its room
\* (a listener, a superseded former host) emits one userList, without the
\* leaver, to the remaining participants and no roomClosed; the registry
\* is unchanged; the room loses the leaver's entry and nothing else: queue,
\* current track, playback fields, theme and host stay.
C12_NonHostLeaveKeepsRoom ==
    [][ \A c \in Conns :
          (LeaveStep(c) /\ HostField(c) # c)
            => LET r == sockets[c].room
                   left == [heap[r] EXCEPT
                              !.users = SelectSeq(heap[r].users, LAMBDA u : u.id # c)]
               IN /\ rooms' = rooms
                  /\ Len(emitted') = 1
                  /\ emitted'[1].ev = "userList"
                  /\ emitted'[1].data = UserList(left)
                  /\ emitted'[1].data.count = Len(heap[r].users) - 1
                  /\ (Members(r) \ {c}) \subseteq emitted'[1].to
                  /\ c \notin emitted'[1].to
                  /\ heap'[r] \in {left, NoRoom}
                  /\ rooms[sockets[c].roomId] = r => heap'[r] = left
                  /\ \A q \in Conns \ {r} : heap'[q] = heap[q] ]_vars

\* A non-host has left a registered room whose host is still connected and
\* had added a track: the userList went to the host, the room kept its
\* queue and current track.
C12_Witness ==
    /\ lastEv.kind = "disconnect"
    /\ Len(emitted) = 1
    /\ \E h \in emitted[1].to :
          /\ HostField(h) = h
          /\ rooms[sockets[h].roomId] = sockets[h].room
          /\ heap[sockets[h].room].currentSong # Null
          /\ heap[sockets[h].room].playlist # <<>>
          /\ emitted[1].data.count = Len(heap[sockets[h].room].users)
          /\ lastEv.sock \notin Members(sockets[h].room)

\* The suspended addSong handlers of room object r among the first n of
\* `lookups`, which holds them in the order of their receipt.
EarlierAdds(r, n) == { j \in 1..n : sockets[lookups[j].sock].room = r }

\* C13: the broadcasts of a room are emitted in the order in which the
\* server received the host events that cause them: when a host event's
\* broadcast is emitted, no addSong of the room received before that event
\* is still waiting to emit its own.
C13_ReceiptOrder ==
    [][ /\ \A c \in Conns, kind \in MutatingKinds :
             (EventStep(kind, c) /\ emitted' # <<>>)
               => EarlierAdds(sockets[c].room, Len(lookups)) = {}
        /\ \A c \in Conns, i \in 1..Len(lookups) :
             (/\ lastEv' = Ev("addSongResume", c)
              /\ lookups[i].sock = c
              /\ lookups' = RemoveAt(lookups, i)
              /\ \A j \in 1..(i - 1) : lookups' # RemoveAt(lookups, j))
               => EarlierAdds(sockets[c].room, i - 1) = {} ]_vars

\* The client of connection c holds the room's current song, playlist,
\* playback flag, theme and dynamic flag.
ClientAgrees(c) ==
    LET room == heap[sockets[c].room]
    IN /\ clients[c].currentSong = room.currentSong
       /\ clients[c].playlist = room.playlist
       /\ clients[c].isPlaying = room.isPlaying
       /\ clients[c].theme = room.theme
       /\ clients[c].isDynamicTheme = room.isDynamicTheme

\* C14: when no addSong is suspended (every message is handled by its
\* client in the step that emits it), the client of every open connection
\* of a registered room agrees with the room.
C14_ClientsAgree ==
    lookups = <<>>
      => \A c \in Connected(sockets) :
            rooms[sockets[c].roomId] = sockets[c].room => ClientAgrees(c)

\* The last step relayed a requestSync of connection c to its room's host.
SyncRequested(c) ==
    /\ lastEv = Ev("requestSync", c)
    /\ Len(emitted) = 1
    /\ emitted[1].ev = "syncRequest"
    /\ emitted[1].to # {}

\* The last step delivered a sync to connection c.
SyncDelivered(c) ==
    \E i \in 1..Len(emitted) : emitted[i].ev = "sync" /\ c \in emitted[i].to

\* Connection c or the host of its room is no longer connected.
SyncMoot(c) ==
    \/ sockets[c].status # "connected"
    \/ HostField(c) \notin Connected(sockets)

\* C15: every requestSync of a listener that was relayed to the host is
\* eventually followed by a sync delivered to that listener, unless the
\* listener or the host disconnects.
C15_SyncAnswered ==
    \A c \in Conns : SyncRequested(c) ~> (SyncDelivered(c) \/ SyncMoot(c))

\* An addSong{id} of connection c is suspended at its metadata lookup.
AddPending(c, id) == \E i \in 1..Len(lookups) : lookups[i] = [sock |-> c, id |-> id]

\* The track with the metadata the lookup resolved, the placeholder track.
ResolvedTrack(id, n) ==
    [id |-> id, title |-> "Title", duration |-> "PT3M", addedBy |-> n]

PlaceholderTrack(id, n) ==
    [id |-> id, title |-> "Unknown Title", duration |-> "Unknown", addedBy |-> n]

\* C16: every addSong{id} accepted from the host is eventually applied, and
\* applying it appends exactly one track to the queue (the queue it
\* broadcasts): the track id, with the sender's display name as attribution
\* and either the resolved metadata or the placeholder title and duration;
\* the step emits nothing but songChange and playlistUpdate.
C16_AddSongAppends ==
    /\ [][ \A c \in Conns, id \in TrackIds :
             ResumeStep(c, id)
               => LET r == sockets[c].room
                      queue == emitted'[Len(emitted')].data
                  IN /\ emitted'[Len(emitted')].ev = "playlistUpdate"
                     /\ heap'[r] # NoRoom => heap'[r].playlist = queue
                     /\ rooms[sockets[c].roomId] = r => heap'[r] # NoRoom
                     /\ Len(queue) = Len(heap[r].playlist) + 1
                     /\ SubSeq(queue, 1, Len(heap[r].playlist)) = heap[r].playlist
                     /\ queue[Len(queue)] \in {ResolvedTrack(id, sockets[c].name),
                                                PlaceholderTrack(id, sockets[c].name)}
                     /\ \A i \in 1..Len(emitted') :
                           emitted'[i].ev \in {"songChange", "playlistUpdate"} ]_vars
    /\ \A c \in Conns, id \in TrackIds : AddPending(c, id) ~> ~AddPending(c, id)

\* The payload is absent or lacks one of the six attributes.
Lacking(theme) == theme = Null \/ \E a \in ThemeAttrs : a \notin DOMAIN theme

\* C17: a host updateTheme whose payload is absent or lacks one of id,
\* name, bgColor, textColor, accentColor, secondaryColor changes no room (so
\* neither theme nor isDynamicTheme) and emits nothing.
C17_MalformedThemeDropped ==
    [][ \A c \in Conns, theme \in ThemeInputs :
          (/\ EventStep("updateTheme", c)
           /\ HostField(c) = c
           /\ Lacking(theme)
           /\ UpdateTheme(c, theme))
            => /\ heap' = heap
               /\ emitted' = <<>>
               /\ clients' = clients ]_vars

\* A host's updateTheme was dropped in a room with a listener whose dynamic
\* flag had been switched on.
C17_Witness ==
    /\ lastEv.kind = "updateTheme"
    /\ HostField(lastEv.sock) = lastEv.sock
    /\ emitted = <<>>
    /\ heap[sockets[lastEv.sock].room].isDynamicTheme
    /\ heap[sockets[lastEv.sock].room].theme = DefaultTheme
    /\ Cardinality(Members(sockets[lastEv.sock].room)) >= 2

\* C18: a host updateTheme with a theme that has all six attributes makes
\* it the room's theme, sets isDynamicTheme to (theme.id = "dynamic")
\* whatever the flag was, and emits one themeUpdate with that theme and that
\* flag to all participants; no other field and no other room changes.
C18_ThemeReplaced ==
    [][ \A c \in Conns, theme \in ThemeInputs :
          (/\ EventStep("updateTheme", c)
           /\ HostField(c) = c
           /\ \A a \in ThemeAttrs : a \in DOMAIN theme /\ theme[a] # ""
           /\ UpdateTheme(c, theme))
            => LET r == sockets[c].room
                   dynamic == (theme.id = "dynamic")
               IN /\ heap' = [heap EXCEPT ![r] = [heap[r] EXCEPT !.theme = theme,
                                                                !.isDynamicTheme = dynamic]]
                  /\ rooms' = rooms
                  /\ Len(emitted') = 1
                  /\ emitted'[1].ev = "themeUpdate"
                  /\ emitted'[1].data = [theme |-> theme, isDynamicTheme |-> dynamic]
                  /\ Members(r) \subseteq emitted'[1].to ]_vars

\* A host's updateTheme with the dynamic theme was broadcast to host and
\* listener, and the room's flag is on.
C18_Witness ==
    /\ lastEv.kind = "updateTheme"
    /\ Len(emitted) = 1
    /\ emitted[1].data.theme = DynamicTheme
    /\ emitted[1].data.isDynamicTheme
    /\ heap[sockets[lastEv.sock].room].isDynamicTheme
    /\ heap[sockets[lastEv.sock].room].theme = DynamicTheme
    /\ Cardinality(emitted[1].to) >= 2

\* C19: a host toggleDynamicTheme(flag) sets the room's isDynamicTheme to
\* flag and emits one dynamicThemeUpdate(flag) to all participants; theme,
\* queue, current track, playback fields, host and participants of the
\* room, and every other room, are unchanged.
C19_ToggleSetsFlag ==
    [][ \A c \in Conns, flag \in BOOLEAN :
          (/\ EventStep("toggleDynamicTheme", c)
           /\ HostField(c) = c
           /\ ToggleDynamicTheme(c, flag))
            => LET r == sockets[c].room
               IN /\ heap' = [heap EXCEPT ![r] = [heap[r] EXCEPT !.isDynamicTheme = flag]]
                  /\ rooms' = rooms
                  /\ Len(emitted') = 1
                  /\ emitted'[1].ev = "dynamicThemeUpdate"
                  /\ emitted'[1].data = flag
                  /\ Members(r) \subseteq emitted'[1].to ]_vars

\* A host's toggleDynamicTheme(true) was broadcast to host and listener in a
\* room that keeps a theme other than the dynamic one.
C19_Witness ==
    /\ lastEv.kind = "toggleDynamicTheme"
    /\ Len(emitted) = 1
    /\ emitted[1].data = TRUE
    /\ heap[sockets[lastEv.sock].room].isDynamicTheme
    /\ heap[sockets[lastEv.sock].room].theme = SynthwaveTheme
    /\ Cardinality(emitted[1].to) >= 2

\* C20: a host playbackState{isPlaying, currentTime} sets the room's
\* isPlaying and currentTime to the payload's values and emits one
\* playbackState with the same payload to all participants, the sender
\* included; queue, current track, theme and every other field and room
\* are unchanged.
C20_PlaybackStateApplied ==
    [][ \A c \in Conns, state \in PlaybackInputs :
          (/\ EventStep("playbackState", c)
           /\ HostField(c) = c
           /\ PlaybackState(c, state))
            => LET r == sockets[c].room
               IN /\ heap' = [heap EXCEPT ![r] = [heap[r] EXCEPT
                                                    !.isPlaying = state.isPlaying,
                                                    !.currentTime = state.currentTime]]
                  /\ rooms' = rooms
                  /\ Len(emitted') = 1
                  /\ emitted'[1].ev = "playbackState"
                  /\ emitted'[1].data = state
                  /\ c \in emitted'[1].to
                  /\ Members(r) \subseteq emitted'[1].to ]_vars

\* A host's playbackState{false, 5} was broadcast to host and listener in a
\* room that holds a current track.
C20_Witness ==
    /\ lastEv.kind = "playbackState"
    /\ Len(emitted) = 1
    /\ emitted[1].data = [isPlaying |-> FALSE, currentTime |-> 5]
    /\ lastEv.sock \in emitted[1].to
    /\ Cardinality(emitted[1].to) >= 2
    /\ heap[sockets[lastEv.sock].room].currentTime = 5
    /\ ~heap[sockets[lastEv.sock].room].isPlaying
    /\ heap[sockets[lastEv.sock].room].currentSong # Null

\* C21: a host updatePlaylist(newQueue) makes newQueue the room's queue and
\* emits one playlistUpdate(newQueue) to all participants; current track,
\* playback fields, theme, host and participants of the room, and every
\* other room, are unchanged.
C21_QueueReplaced ==
    [][ \A c \in Connected(sockets) :
          \A newQueue \in PlaylistInputs(heap[sockets[c].room]) :
             (/\ EventStep("updatePlaylist", c)
              /\ HostField(c) = c
              /\ UpdatePlaylist(c, newQueue))
               => LET r == sockets[c].room
                  IN /\ heap' = [heap EXCEPT ![r] = [heap[r] EXCEPT !.playlist = newQueue]]
                     /\ rooms' = rooms
                     /\ Len(emitted') = 1
                     /\ emitted'[1].ev = "playlistUpdate"
                     /\ emitted'[1].data = newQueue
                     /\ Members(r) \subseteq emitted'[1].to ]_vars

\* A host's updatePlaylist with one track was broadcast to host and
\* listener; the room's queue is that list and its current track is still
\* null.
C21_Witness ==
    /\ lastEv.kind = "updatePlaylist"
    /\ Len(emitted) = 1
    /\ Len(emitted[1].data) = 1
    /\ heap[sockets[lastEv.sock].room].playlist = emitted[1].data
    /\ heap[sockets[lastEv.sock].room].currentSong = Null
    /\ lastEv.sock \in emitted[1].to
    /\ Cardinality(emitted[1].to) >= 2

\* C22: a chat message of any connection, host or not, is emitted once to
\* all participants of the sender's room as message{user, text, timestamp}
\* with the sender's display name and the payload's text and timestamp, and
\* changes no room, registry entry or suspended handler.
C22_ChatRelayed ==
    [][ \A c \in Conns, m \in MessageInputs :
          (EventStep("message", c) /\ Message(c, m))
            => /\ heap' = heap
               /\ rooms' = rooms
               /\ sockets' = sockets
               /\ lookups' = lookups
               /\ Len(emitted') = 1
               /\ emitted'[1].ev = "message"
               /\ emitted'[1].data = [user |-> sockets[c].name, text |-> m.text,
                                      timestamp |-> m.timestamp]
               /\ c \in emitted'[1].to
               /\ Members(sockets[c].room) \subseteq emitted'[1].to ]_vars

\* A listener's chat message was relayed under its name to the host and to
\* itself, in a room whose queue is not empty.
C22_Witness ==
    /\ lastEv.kind = "message"
    /\ HostField(lastEv.sock) \in Connected(sockets) \ {lastEv.sock}
    /\ Len(emitted) = 1
    /\ emitted[1].data.user = sockets[lastEv.sock].name
    /\ {lastEv.sock, HostField(lastEv.sock)} \subseteq emitted[1].to
    /\ heap[sockets[lastEv.sock].room].playlist # <<>>

\* The room id connection c has joined, read before or after the step that
\* opens the connection.
RoomIdAt(c) == IF sockets[c].roomId # NoId THEN sockets[c].roomId ELSE sockets'[c].roomId

\* Room object q serves a room id other than rid.
ServesOther(q, rid) ==
    \/ \E other \in RoomIds \ {rid} : rooms[other] = q
    \/ \E d \in Conns : sockets[d].room = q /\ sockets[d].roomId \notin {rid, NoId}

\* C23: a step taken for a connection of one room id (its join, any of its
\* events with any payload, the completion of its addSong, its disconnect)
\* changes no room object and no registry entry of another room id, and
\* delivers no message to a connection that joined another room id.
C23_RoomsIsolated ==
    [][ \A c \in Conns :
          lastEv'.sock = c
            => LET rid == RoomIdAt(c)
               IN /\ \A other \in RoomIds \ {rid} : rooms'[other] = rooms[other]
                  /\ \A q \in Conns : ServesOther(q, rid) => heap'[q] = heap[q]
                  /\ \A i \in 1..Len(emitted') : \A d \in emitted'[i].to :
                        sockets'[d].roomId = rid ]_vars

\* C24: a host songEnded received while the room's current track is null,
\* whatever the queue holds, changes nothing, emits nothing and leaves the
\* process running.
C24_SongEndedNoTrack ==
    [][ \A c \in Conns :
          (/\ EventStep("songEnded", c)
           /\ HostField(c) = c
           /\ heap[sockets[c].room].currentSong = Null)
            => /\ heap' = heap
               /\ rooms' = rooms
               /\ emitted' = <<>>
               /\ ~crashed' ]_vars

\* C25 as claimed: the host of every room in the registry is set and names
\* an open connection that is a participant of that room.
C25_RegisteredRoomHasHost ==
    \A rid \in RoomIds :
        rooms[rid] # NoId
          => /\ heap[rooms[rid]].host \in Connected(sockets)
             /\ heap[rooms[rid]].host \in Members(rooms[rid])

\* C25 amended: the host of a room in the registry is either not set, and
\* then no participant of the room joined with host intent, or names an
\* open connection that is a participant of that room.
C25_HostOpenOrUnset ==
    \A rid \in RoomIds :
        rooms[rid] # NoId
          => LET r == rooms[rid]
             IN IF heap[r].host = NoId
                  THEN \A i \in 1..Len(heap[r].users) : ~heap[r].users[i].isHost
                  ELSE /\ heap[r].host \in Connected(sockets)
                       /\ sockets[heap[r].host].room = r
                       /\ heap[r].host \in Members(r)

\* The registry holds a room without host that has a participant, and a
\* room whose host is open while the connection that created it has left.
C25_Witness ==
    /\ \E rid \in RoomIds :
          /\ rooms[rid] # NoId
          /\ heap[rooms[rid]].host = NoId
          /\ Members(rooms[rid]) # {}
    /\ \E rid \in RoomIds :
          /\ rooms[rid] # NoId
          /\ heap[rooms[rid]].host \in Connected(sockets)
          /\ rooms[rid] \notin Connected(sockets)

\* The fields of a room a join has no business with.
RoomContent(room) ==
    <<room.playlist, room.currentSong, room.isPlaying, room.currentTime,
      room.theme, room.isDynamicTheme>>

\* C26: a join under a room id the registry holds leaves the registry and
\* every other room object as they are, adds the joiner to the participants
\* of the registered room, moves the host only to a joiner with host intent,
\* and leaves queue, current track, playback fields, theme and the dynamic
\* flag of the room as they were.
C26_JoinKeepsRoom ==
    [][ \A rid \in RoomIds :
          (/\ lastEv'.kind = "connection"
           /\ sockets'[nextId].roomId = rid
           /\ rooms[rid] # NoId)
            => LET r == rooms[rid]
                   c == nextId
               IN /\ rooms' = rooms
                  /\ sockets'[c].room = r
                  /\ \A q \in Conns \ {r} : heap'[q] = heap[q]
                  /\ RoomContent(heap'[r]) = RoomContent(heap[r])
                  /\ Len(heap'[r].users) = Len(heap[r].users) + 1
                  /\ SubSeq(heap'[r].users, 1, Len(heap[r].users)) = heap[r].users
                  /\ heap'[r].users[Len(heap'[r].users)].id = c
                  /\ heap'[r].host = IF sockets'[c].isHost THEN c ELSE heap[r].host ]_vars

\* A connection has just joined a registered room whose queue, theme or
\* dynamic flag is no longer the one the room was created with.
C26_Witness ==
    /\ lastEv.kind = "connection"
    /\ lastEv.sock \in Connected(sockets)
    /\ sockets[lastEv.sock].room # lastEv.sock
    /\ \/ heap[sockets[lastEv.sock].room].playlist # <<>>
       \/ heap[sockets[lastEv.sock].room].theme # DefaultTheme
       \/ heap[sockets[lastEv.sock].room].isDynamicTheme
    /\ Len(heap[sockets[lastEv.sock].room].users) >= 2

\* A room object that exists and that the registry no longer holds.
Destroyed(r) == heap[r] # NoRoom /\ \A rid \in RoomIds : rooms[rid] # r

\* The events that carry the state of a room.
StateKinds ==
    {"songChange", "playlistUpdate", "playbackState", "themeUpdate", "dynamicThemeUpdate"}

\* C27: once the disconnect of its host has destroyed a room, no step changes
\* queue, current track, playback fields, theme or dynamic flag of the room,
\* and no handler of a connection of the room emits songChange,
\* playlistUpdate, playbackState, themeUpdate or dynamicThemeUpdate, a
\* suspended addSong included.
C27_DestroyedRoomSilent ==
    [][ \A r \in Conns :
          Destroyed(r)
            => /\ heap'[r] # NoRoom => RoomContent(heap'[r]) = RoomContent(heap[r])
               /\ (/\ lastEv'.kind # "connection"
                   /\ lastEv'.sock \in Conns
                   /\ sockets[lastEv'.sock].room = r)
                    => \A i \in 1..Len(emitted') : emitted'[i].ev \notin StateKinds ]_vars

\* The earliest received of the suspended addSong handlers of room object r.
FirstPending(r) ==
    lookups[CHOOSE j \in EarlierAdds(r, Len(lookups)) :
               \A k \in EarlierAdds(r, Len(lookups)) : j <= k]

\* The data of the messages of kind ev in msgs.
DataOf(msgs, ev) == { msgs[i].data : i \in { j \in 1..Len(msgs) : msgs[j].ev = ev } }

\* C28: whichever lookup completes, the track then appended to the queue of
\* the room is the one of the earliest received addSong of the room that is
\* still suspended, and so is the track promoted to current when the room
\* has none.
C28_OverlappingAddsInOrder ==
    [][ \A c \in Conns :
          lastEv' = Ev("addSongResume", c)
            => LET r == sockets[c].room
               IN /\ \A queue \in DataOf(emitted', "playlistUpdate") :
                        queue[Len(queue)].id = FirstPending(r).id
                  /\ \A track \in DataOf(emitted', "songChange") :
                        track.id = FirstPending(r).id ]_vars

\* C29: when the lookup of an addSong of connection c completes and the
\* host of the room is no longer c, the completion emits nothing and
\* leaves the room as it is.
C29_AddOnlyWhileHost ==
    [][ \A c \in Conns :
          (lastEv' = Ev("addSongResume", c) /\ HostField(c) # c)
            => /\ emitted' = <<>>
               /\ heap'[sockets[c].room] = heap[sockets[c].room] ]_vars

\* Connection c belongs to a destroyed room whose id a new room has taken.
Lingering(c) ==
    /\ sockets[c].status = "connected"
    /\ rooms[sockets[c].roomId] # NoId
    /\ rooms[sockets[c].roomId] # sockets[c].room

\* The connections whose room object is the one registered under rid.
FreshMembers(socks, rid) ==
    { q \in Connected(socks) : socks[q].roomId = rid /\ socks[q].room = rooms[rid] }

\* C30: a chat message, a disconnect or a sync request of a connection
\* that belongs to a destroyed room delivers no message to a member of the
\* room that has taken the destroyed room's id, and leaves that room as it
\* is.
C30_FreshRoomUndisturbed ==
    [][ \A c \in Conns :
          (/\ Lingering(c)
           /\ lastEv'.sock = c
           /\ lastEv'.kind \in {"message", "disconnect", "requestSync"})
            => /\ \A i \in 1..Len(emitted') :
                     emitted'[i].to \cap FreshMembers(sockets', sockets[c].roomId) = {}
               /\ heap'[rooms[sockets[c].roomId]] = heap[rooms[sockets[c].roomId]] ]_vars

\* The queue q without its first entry of the given id, if it has one.
WithoutFirst(q, id) ==
    LET hits == { i \in 1..Len(q) : q[i].id = id }
    IN IF hits = {} THEN q
       ELSE LET first == CHOOSE i \in hits : \A j \in hits : i <= j
            IN [k \in 1..(Len(q) - 1) |-> IF k < first THEN q[k] ELSE q[k + 1]]

\* C32: a host songEnded with a current track, whatever the queue holds,
\* removes the first queue entry with the current track's id, makes the head
\* of the remaining queue (null if none remains) the current track, and
\* sends songChange with it and then playlistUpdate with the remaining queue
\* to all participants.
C32_SongEndedAnyQueue ==
    [][ \A c \in Conns :
          LET room == heap[sockets[c].room]
              rest == WithoutFirst(room.playlist, room.currentSong.id)
              next == IF rest = <<>> THEN Null ELSE rest[1]
          IN (/\ EventStep("songEnded", c)
              /\ HostField(c) = c
              /\ room.currentSong # Null)
               => /\ heap'[sockets[c].room].playlist = rest
                  /\ heap'[sockets[c].room].currentSong = next
                  /\ Len(emitted') = 2
                  /\ emitted'[1] = Msg(emitted'[1].to, "songChange", next)
                  /\ emitted'[2] = Msg(emitted'[2].to, "playlistUpdate", rest)
                  /\ Members(sockets[c].room) \subseteq emitted'[1].to \cap emitted'[2].to ]_vars

\* C33: when the lookup of an addSong completes, the track is appended at
\* the end of the queue and the entries before it stay; if the room has no
\* current track the track becomes the current one and songChange with it
\* precedes playlistUpdate; if the room has a current track, that track
\* stays and playlistUpdate is the only message.
C33_SongChangeIffNoCurrent ==
    [][ \A c \in Conns, id \in TrackIds :
          ResumeStep(c, id)
            => LET r == sockets[c].room
                   queue == emitted'[Len(emitted')].data
                   track == queue[Len(queue)]
               IN /\ emitted'[Len(emitted')].ev = "playlistUpdate"
                  /\ track.id = id
                  /\ SubSeq(queue, 1, Len(queue) - 1) = heap[r].playlist
                  /\ IF heap[r].currentSong = Null
                       THEN /\ Len(emitted') = 2
                            /\ emitted'[1] = Msg(emitted'[2].to, "songChange", track)
                            /\ heap'[r] # NoRoom => heap'[r].currentSong = track
                       ELSE /\ Len(emitted') = 1
                            /\ heap'[r] # NoRoom
                                  => heap'[r].currentSong = heap[r].currentSong ]_vars

\* An addSong was applied to a room that had a current track and a queue
\* of one: playlistUpdate alone, with two entries, and the current track is
\* still the first.
C33_Witness ==
    /\ lastEv.kind = "addSongResume"
    /\ Len(emitted) = 1
    /\ emitted[1].ev = "playlistUpdate"
    /\ Len(emitted[1].data) = 2
    /\ lastEv.sock \in Connected(sockets)
    /\ heap[sockets[lastEv.sock].room].currentSong = emitted[1].data[1]
    /\ emitted[1].data[2] # emitted[1].data[1]

\* C37: in every registered room a participant entry is flagged as host
\* exactly if its connection is the host of the room, and no userList
\* emitted carries more than one entry flagged as host.
C37_HostFlagIsHost ==
    /\ \A rid \in RoomIds :
          rooms[rid] # NoId
            => \A i \in 1..Len(heap[rooms[rid]].users) :
                  heap[rooms[rid]].users[i].isHost
                    <=> heap[rooms[rid]].users[i].id = heap[rooms[rid]].host
    /\ \A list \in DataOf(emitted, "userList") :
          Cardinality({ i \in 1..Len(list.users) : list.users[i].isHost }) <= 1

\* The current track of the room is null or the id of a queue entry.
CurrentQueued(room) ==
    room.currentSong # Null
      => \E i \in 1..Len(room.playlist) : room.playlist[i].id = room.currentSong.id

\* C38 as claimed: in every room a current track that is not null is an
\* entry of the queue.
C38_CurrentInQueue ==
    \A r \in Conns : heap[r] # NoRoom => CurrentQueued(heap[r])

\* C38 amended: the completion of an addSong keeps a current track in the
\* queue if it was in it, and puts the track it promotes in it; after a
\* songEnded that acts, the current track is null or the head of the queue.
C38_AddAndEndKeepCurrentQueued ==
    [][ \A c \in Conns :
          LET r == sockets[c].room
          IN /\ (lastEv' = Ev("addSongResume", c) /\ heap'[r] # NoRoom /\ CurrentQueued(heap[r]))
                  => CurrentQueued(heap'[r])
             /\ (EventStep("songEnded", c) /\ emitted' # <<>>)
                  => /\ CurrentQueued(heap'[r])
                     /\ heap'[r].playlist # <<>>
                           => heap'[r].currentSong = heap'[r].playlist[1] ]_vars

\* A songEnded has moved the current track to the next queue entry, after
\* an addSong put a track in an empty room.
C38_Witness ==
    /\ lastEv.kind = "songEnded"
    /\ emitted # <<>>
    /\ lastEv.sock \in Connected(sockets)
    /\ heap[sockets[lastEv.sock].room].currentSong # Null
    /\ CurrentQueued(heap[sockets[lastEv.sock].room])

\* The userList payload that lists the participant entries `users`.
ListOf(users) ==
    [users |-> [i \in 1..Len(users) |->
                  [name |-> users[i].name, isHost |-> users[i].isHost]],
     count |-> Len(users)]

\* C39: a userList that a join or a disconnect of connection c delivers to
\* some connection lists the participants that the room registered under
\* the room id of c has when the message is emitted, and counts them.
C39_UserListOfRegisteredRoom ==
    [][ \A c \in Conns : \A list \in DataOf(emitted', "userList") :
          /\ (/\ lastEv' = Ev("connection", c)
              /\ \E i \in 1..Len(emitted') : emitted'[i].to # {})
               => list = ListOf(heap'[rooms'[sockets'[c].roomId]].users)
          /\ (/\ lastEv' = Ev("disconnect", c)
              /\ rooms[sockets[c].roomId] # NoId
              /\ \E i \in 1..Len(emitted') :
                    emitted'[i].ev = "userList" /\ emitted'[i].to # {})
               => list = ListOf(SelectSeq(heap[rooms[sockets[c].roomId]].users,
                                          LAMBDA u : u.id # c)) ]_vars

\* C40: a sync is delivered to a connection only while a requestSync of
\* that connection has not been followed by a sync yet.
C40_SyncOnlyOnRequest ==
    [][ \A q \in Conns : \A i \in 1..Len(emitted') :
          (emitted'[i].ev = "sync" /\ q \in emitted'[i].to) => unanswered[q] > 0 ]_vars

\* C31: when the host's component removes the track songId and the server
\* applies the playlist it submits, the queue of the room loses its entries
\* of that id and no other entry.
C31_RemoveLosesNothingElse ==
    [][ \A c \in Conns, songId \in TrackIds :
          (HandleRemoveFromPlaylist(c, songId) /\ emitted' # <<>>)
            => heap'[sockets[c].room].playlist
                 = SelectSeq(heap[sockets[c].room].playlist,
                             LAMBDA t : t.id # songId) ]_vars

C35_ConnectionKept ==
    [][ \A c \in Conns :
          lastEv' = Ev("disconnect", c) => pages[c].phase = "left" ]_vars

\* Connection c is open and the room it joined has been destroyed.
InDestroyedRoom(c) ==
    /\ sockets[c].status = "connected"
    /\ rooms[sockets[c].roomId] # sockets[c].room

====
